---- MODULE Spec2Model ----
(***************************************************************************)
(* Loyalty-program backend: the reward redemption validator                *)
(* (RewardService.redeemReward), customer signup and points accrual        *)
(* (CustomerService.createCustomer / addPoints) and the store-side trigger *)
(* update_customer_stats that runs on every Transaction insert.            *)
(*                                                                         *)
(* The remote store is the shared state; every service call is a process   *)
(* that is suspended at each store round trip (each `await`), so one       *)
(* action is one round trip together with the local code that follows it.  *)
(***************************************************************************)
EXTENDS Integers, Sequences, FiniteSets, TLC

VARIABLES
  customers,      \* table customers: sequence of rows, id = index
  rewards,        \* table rewards: sequence of rows, id = index
  transactions,   \* table transactions (append-only ledger)
  redemptions,    \* table redemptions
  notifications,  \* table notifications
  clock,          \* the current time: it advances with every ledger entry
  pc,             \* per request: the await it is suspended at
  args,           \* per request: the call and its arguments
  local,          \* per request: the local variables of the call
  result,         \* per request: returned value or thrown error
  restaurants,    \* table restaurants (the tenants), id = index
  staff,          \* table staff (the memberships), id = index
  loyalty_tiers,  \* table loyalty_tiers
  ctx,            \* per identity: the state of its AuthProvider
  fault           \* the store's transient fault: "none", "armed", "spent"

vars == <<customers, rewards, transactions, redemptions, notifications,
          clock, pc, args, local, result,
          restaurants, staff, loyalty_tiers, ctx, fault>>

store == <<customers, rewards, transactions, redemptions, notifications, clock>>

\* What identity resolution works on; the service calls leave it alone.
identity == <<restaurants, staff, loyalty_tiers, ctx, fault>>

(***************************************************************************)
(* Bounds of the model.                                                    *)
(***************************************************************************)
MaxProcs == 2          \* concurrent service calls

Procs == 1..MaxProcs

(***************************************************************************)
(* Optional values: a nullable column or an optional argument is the empty *)
(* set (null / undefined) or a singleton.                                  *)
(***************************************************************************)
Null == {}
Some(v) == {v}
Val(o) == CHOOSE v \in o : TRUE

\* JavaScript truthiness of a nullable number: null, undefined and 0 are falsy.
Truthy(o) == o # Null /\ Val(o) # 0

\* `x || 0` on an optional number.
OrZero(o) == IF Truthy(o) THEN Val(o) ELSE 0

\* SQL COALESCE(x, 0).
Coalesce0(o) == IF o = Null THEN 0 ELSE Val(o)

\* Math.round / SQL ROUND of n/5 for an integer n (n/5 is never a tie).
RoundDiv5(n) == (2 * n + 5) \div 10

Min(a, b) == IF a < b THEN a ELSE b

Count(s, P(_)) == Cardinality({i \in 1..Len(s) : P(s[i])})

(***************************************************************************)
(* Tenancy.  Every call runs as a signed-in staff member; the staff row    *)
(* of the acting identity names the acting restaurant.                     *)
(***************************************************************************)
ActingRestaurant == "r1"
OtherRestaurant == "r2"

\* RewardService.getCurrentRestaurantId / CustomerService.getCurrentRestaurantId
getCurrentRestaurantId == ActingRestaurant

(***************************************************************************)
(* Requests.                                                               *)
(***************************************************************************)
Idle == [op |-> "none"]
NoLocal == [restaurantId |-> ""]
NoResult == [done |-> FALSE, ok |-> FALSE, error |-> ""]
Ok == [done |-> TRUE, ok |-> TRUE, error |-> ""]
Threw(msg) == [done |-> TRUE, ok |-> FALSE, error |-> msg]

\* A select(...).single() response: an error when no row matches.
NoResponse == [error |-> FALSE, data |-> << >>]
Single(rows) ==
  IF Len(rows) = 1 THEN [error |-> FALSE, data |-> rows]
                   ELSE [error |-> TRUE, data |-> << >>]

\* .from(table).select('*').eq('id', id).eq('restaurant_id', rid).single()
SelectById(table, id, rid) ==
  Single(IF id \in 1..Len(table) /\ table[id].restaurant_id = rid
           THEN << table[id] >> ELSE << >>)


(***************************************************************************)
(* Identities.  An identity is an account of the authentication service:   *)
(* an id and the email it signs in with.  Each identity has one browser    *)
(* with one AuthProvider, whose React state is ctx[u].                      *)
(***************************************************************************)
Identities == {"u1", "u2", "u3"}

\* user.email of each identity
EmailOf == [u \in Identities |->
              CASE u = "u1" -> "e1" [] u = "u2" -> "e2" [] u = "u3" -> "e3"]

\* useState(null) x 3, useState(true); mounted and authTimeout of useEffect
Unmounted ==
  [user |-> Null, staff |-> Null, session |-> Null, loading |-> TRUE,
   mounted |-> FALSE, authTimeout |-> "unset"]

\* No identity has opened the application and the tenant tables are empty.
NoIdentityState ==
  /\ restaurants = << >>
  /\ staff = << >>
  /\ loyalty_tiers = << >>
  /\ ctx = [u \in Identities |-> Unmounted]
  /\ fault = "none"

(***************************************************************************)
(* Store content the redemption model starts from: rows that signup,       *)
(* accrual and one earlier redemption leave behind.  Customers 1 and 2 and *)
(* rewards 1..4 belong to the acting restaurant, customer 3 and reward 5   *)
(* to another one.                                                         *)
(***************************************************************************)
CustomerRow(rid, email, phone, total, lifetime, tier, progress, visits, seen) ==
  [restaurant_id |-> rid, email |-> email, phone |-> phone,
   total_points |-> total, lifetime_points |-> lifetime,
   current_tier |-> tier, tier_progress |-> progress,
   visit_count |-> visits, total_spent |-> 0, last_visit |-> seen,
   is_active |-> TRUE]

RewardRow(rid, points, tier, available, redeemed) ==
  [restaurant_id |-> rid, points_required |-> points, min_tier |-> tier,
   total_available |-> available, total_redeemed |-> redeemed,
   is_active |-> TRUE]

InitCustomers ==
  << CustomerRow(ActingRestaurant, "e1", Null, 400, 600, "silver", 20, 1, Some(2)),
     CustomerRow(ActingRestaurant, "e2", Null, 250, 250, "bronze", 22505, 1, Some(4)),
     CustomerRow(OtherRestaurant, "e1", Null, 200, 200, "bronze", 10020, 0, Null) >>

InitRewards ==
  << RewardRow(ActingRestaurant, 200, "bronze", Some(1), 0),
     RewardRow(ActingRestaurant, 200, "silver", Null, 0),
     RewardRow(ActingRestaurant, 200, "bronze", Some(0), 0),
     RewardRow(ActingRestaurant, 200, "silver", Some(1), 1),
     RewardRow(OtherRestaurant, 200, "bronze", Null, 0) >>

InitRedemptions ==
  << [restaurant_id |-> ActingRestaurant, customer_id |-> 1, reward_id |-> 4,
      points_used |-> 200, status |-> "pending"] >>

InitNotifications ==
  << [restaurant_id |-> ActingRestaurant, title |-> "Reward Redeemed",
      type |-> "info"] >>

(***************************************************************************)
(* RewardService.redeemReward                                              *)
(***************************************************************************)
tierOrder == [bronze |-> 0, silver |-> 1, gold |-> 2]

\* A slip the properties below must catch: the balance check reads the
\* lifetime total instead of the spendable balance.
InsufficientPoints_lifetime(customer, reward) ==
  customer.lifetime_points < reward.points_required

\* A slip: the balance check left out.
InsufficientPoints_unchecked(customer, reward) == FALSE

\* customer.total_points < reward.points_required
InsufficientPoints(customer, reward) ==
  customer.total_points < reward.points_required

\* A slip: the tier comparison with its operands exchanged.
TierTooLow_swapped(customer, reward) ==
  tierOrder[reward.min_tier] < tierOrder[customer.current_tier]

\* tierOrder[customer.current_tier] < tierOrder[reward.min_tier]
TierTooLow(customer, reward) ==
  tierOrder[customer.current_tier] < tierOrder[reward.min_tier]

\* reward.total_available && reward.total_redeemed >= reward.total_available
Unavailable(reward) ==
  Truthy(reward.total_available)
    /\ reward.total_redeemed >= Val(reward.total_available)

TierError(reward) == "Requires " \o reward.min_tier \o " tier or higher"

\* A slip: the tier check placed before the balance check.
redeemValidate_tierFirst(customerResponse, rewardResponse) ==
  IF customerResponse.error THEN "Customer not found in your restaurant"
  ELSE IF rewardResponse.error THEN "Reward not found in your restaurant"
  ELSE LET customer == customerResponse.data[1]
           reward == rewardResponse.data[1]
       IN IF TierTooLow(customer, reward) THEN TierError(reward)
          ELSE IF InsufficientPoints(customer, reward) THEN "Insufficient points"
          ELSE IF Unavailable(reward) THEN "Reward is no longer available"
          ELSE ""

\* The checks between the two reads and the first write: the message of the
\* error thrown, or "" when the redemption is admitted.
redeemValidate(customerResponse, rewardResponse) ==
  IF customerResponse.error THEN "Customer not found in your restaurant"
  ELSE IF rewardResponse.error THEN "Reward not found in your restaurant"
  ELSE LET customer == customerResponse.data[1]
           reward == rewardResponse.data[1]
       IN IF InsufficientPoints(customer, reward) THEN "Insufficient points"
          ELSE IF TierTooLow(customer, reward) THEN TierError(reward)
          ELSE IF Unavailable(reward) THEN "Reward is no longer available"
          ELSE ""

\* The row inserted into redemptions.
NewRedemption(restaurantId, customerId, rewardId, reward) ==
  [restaurant_id |-> restaurantId, customer_id |-> customerId,
   reward_id |-> rewardId, points_used |-> reward.points_required,
   status |-> "pending"]

\* A slip: the debit computed from the lifetime total.
DebitedPoints_lifetime(customer, reward) ==
  customer.lifetime_points - reward.points_required

\* total_points written back: customer.total_points - reward.points_required
DebitedPoints(customer, reward) ==
  customer.total_points - reward.points_required

\* total_redeemed written back: reward.total_redeemed + 1
BumpedRedeemed(reward) == reward.total_redeemed + 1

RedeemNotification(restaurantId) ==
  [restaurant_id |-> restaurantId, title |-> "Reward Redeemed", type |-> "info"]

\* Requests are interchangeable, so the idle request with the lowest number
\* is the one that issues the next call.
NextCaller(p) == pc[p] = "idle" /\ \A q \in Procs : q < p => pc[q] # "idle"

\* The call starts: getCurrentRestaurantId resolves the acting restaurant.
RR_Start(p, customerId, rewardId) ==
  /\ UNCHANGED identity
  /\ NextCaller(p)
  /\ pc' = [pc EXCEPT ![p] = "rr_read"]
  /\ args' = [args EXCEPT ![p] = [op |-> "redeemReward",
                                  customerId |-> customerId,
                                  rewardId |-> rewardId]]
  /\ local' = [local EXCEPT ![p] = [restaurantId |-> getCurrentRestaurantId,
                                    got |-> {},
                                    customerResponse |-> NoResponse,
                                    rewardResponse |-> NoResponse]]
  /\ UNCHANGED <<store, result>>

\* Promise.all: the customer select lands.
RR_ReadCustomer(p) ==
  /\ UNCHANGED identity
  /\ pc[p] = "rr_read"
  /\ "customer" \notin local[p].got
  /\ local' = [local EXCEPT
       ![p].customerResponse =
          SelectById(customers, args[p].customerId, local[p].restaurantId),
       ![p].got = @ \cup {"customer"}]
  /\ UNCHANGED <<store, pc, args, result>>

\* Promise.all: the reward select lands.
RR_ReadReward(p) ==
  /\ UNCHANGED identity
  /\ pc[p] = "rr_read"
  /\ "reward" \notin local[p].got
  /\ local' = [local EXCEPT
       ![p].rewardResponse =
          SelectById(rewards, args[p].rewardId, local[p].restaurantId),
       ![p].got = @ \cup {"reward"}]
  /\ UNCHANGED <<store, pc, args, result>>

\* Both responses are in: the checks run on the rows that were read.
RR_Validate(p) ==
  /\ UNCHANGED identity
  /\ pc[p] = "rr_read"
  /\ local[p].got = {"customer", "reward"}
  /\ LET msg == redeemValidate(local[p].customerResponse, local[p].rewardResponse)
     IN IF msg # ""
          THEN /\ pc' = [pc EXCEPT ![p] = "done"]
               /\ result' = [result EXCEPT ![p] = Threw(msg)]
          ELSE /\ pc' = [pc EXCEPT ![p] = "rr_insert"]
               /\ UNCHANGED result
  /\ UNCHANGED <<store, args, local>>

\* insert into redemptions
RR_InsertRedemption(p) ==
  /\ UNCHANGED identity
  /\ pc[p] = "rr_insert"
  /\ redemptions' = Append(redemptions,
       NewRedemption(local[p].restaurantId, args[p].customerId,
                     args[p].rewardId, local[p].rewardResponse.data[1]))
  /\ pc' = [pc EXCEPT ![p] = "rr_debit"]
  /\ UNCHANGED <<customers, rewards, transactions, notifications, clock,
                 args, local, result>>

\* update customers set total_points = <value computed from the row read>
RR_UpdateCustomer(p) ==
  /\ UNCHANGED identity
  /\ pc[p] = "rr_debit"
  /\ customers' = [customers EXCEPT ![args[p].customerId].total_points =
       DebitedPoints(local[p].customerResponse.data[1],
                     local[p].rewardResponse.data[1])]
  /\ pc' = [pc EXCEPT ![p] = "rr_count"]
  /\ UNCHANGED <<rewards, transactions, redemptions, notifications, clock,
                 args, local, result>>

\* update rewards set total_redeemed = <value computed from the row read>
RR_UpdateReward(p) ==
  /\ UNCHANGED identity
  /\ pc[p] = "rr_count"
  /\ rewards' = [rewards EXCEPT ![args[p].rewardId].total_redeemed =
       BumpedRedeemed(local[p].rewardResponse.data[1])]
  /\ pc' = [pc EXCEPT ![p] = "rr_notify"]
  /\ UNCHANGED <<customers, transactions, redemptions, notifications, clock,
                 args, local, result>>

\* insert into notifications, then return the redemption
RR_Notify(p) ==
  /\ UNCHANGED identity
  /\ pc[p] = "rr_notify"
  /\ notifications' = Append(notifications,
       RedeemNotification(local[p].restaurantId))
  /\ pc' = [pc EXCEPT ![p] = "done"]
  /\ result' = [result EXCEPT ![p] = Ok]
  /\ UNCHANGED <<customers, rewards, transactions, redemptions, clock,
                 args, local>>

(***************************************************************************)
(* The redemption model: each request is one redeemReward call.            *)
(***************************************************************************)
InitRequests ==
  /\ pc = [p \in Procs |-> "idle"]
  /\ args = [p \in Procs |-> Idle]
  /\ local = [p \in Procs |-> NoLocal]
  /\ result = [p \in Procs |-> NoResult]

InitRedeem ==
  /\ customers = InitCustomers
  /\ rewards = InitRewards
  /\ transactions = << >>
  /\ redemptions = InitRedemptions
  /\ notifications = InitNotifications
  /\ clock = 4
  /\ InitRequests
  /\ NoIdentityState

\* The calls issued: every customer of the acting restaurant with every one
\* of its rewards, and the calls that name a row of the other restaurant.
RedeemCalls ==
  ({1, 2} \X {1, 2, 3, 4}) \cup {<<3, 1>>, <<1, 5>>, <<3, 5>>}

NextRedeem ==
  \E p \in Procs :
    \/ \E call \in RedeemCalls : RR_Start(p, call[1], call[2])
    \/ RR_ReadCustomer(p)
    \/ RR_ReadReward(p)
    \/ RR_Validate(p)
    \/ RR_InsertRedemption(p)
    \/ RR_UpdateCustomer(p)
    \/ RR_UpdateReward(p)
    \/ RR_Notify(p)

SpecRedeem == InitRedeem /\ [][NextRedeem]_vars

(***************************************************************************)
(* The store-side trigger update_customer_stats_trigger: AFTER INSERT ON   *)
(* transactions FOR EACH ROW, in the transaction of the insert.            *)
(***************************************************************************)
calculate_customer_tier(customer_points) ==
  IF customer_points >= 1000 THEN "gold"
  ELSE IF customer_points >= 500 THEN "silver"
  ELSE "bronze"

\* The CASE expression assigned to tier_progress; lifetime_points is the
\* value of the column before the update.
\*   WHEN lifetime_points + NEW.points >= 1000 THEN 100
\*   WHEN lifetime_points + NEW.points >= 500
\*     THEN ROUND(((lifetime_points + NEW.points - 500) / 500.0) * 100)
\*   ELSE ROUND((lifetime_points + NEW.points / 500.0) * 100)
trigger_tier_progress(lifetime_points, points) ==
  IF lifetime_points + points >= 1000 THEN 100
  ELSE IF lifetime_points + points >= 500
    THEN RoundDiv5(lifetime_points + points - 500)
  ELSE 100 * lifetime_points + RoundDiv5(points)

\* The customers table after the trigger has run for the inserted row NEWROW.
update_customer_stats(table, NEWROW) ==
  LET id == NEWROW.customer_id
      hit == id \in 1..Len(table) /\ table[id].restaurant_id = NEWROW.restaurant_id
      old == table[id]
      first == [old EXCEPT
        !.total_points = old.total_points + NEWROW.points,
        !.lifetime_points = old.lifetime_points + NEWROW.points,
        !.current_tier = calculate_customer_tier(old.lifetime_points + NEWROW.points),
        !.tier_progress = trigger_tier_progress(old.lifetime_points, NEWROW.points)]
      second == IF NEWROW.type = "purchase"
        THEN [first EXCEPT
          !.visit_count = first.visit_count + 1,
          !.last_visit = Some(NEWROW.created_at),
          !.total_spent = first.total_spent + Coalesce0(NEWROW.amount_spent)]
        ELSE first
  IN IF hit THEN [table EXCEPT ![id] = second] ELSE table

TransactionRow(restaurantId, customerId, type, points, amountSpent, now) ==
  [restaurant_id |-> restaurantId, customer_id |-> customerId, type |-> type,
   points |-> points, amount_spent |-> amountSpent, created_at |-> now]

(***************************************************************************)
(* CustomerService.checkCustomerExists / createCustomer                    *)
(***************************************************************************)
Emails == {"e1", "e2"}
Phones == {Null, Some("p1")}

\* The ids of the rows the query of checkCustomerExists returns.
checkCustomerExists(table, email, phone, targetRestaurantId) ==
  {i \in 1..Len(table) :
     /\ table[i].restaurant_id = targetRestaurantId
     /\ table[i].is_active
     /\ IF phone # Null
          THEN table[i].email = email \/ table[i].phone = phone
          ELSE table[i].email = email}

\* A slip: the table declared without its unique constraint.
UniqueViolation_none(table, restaurantId, email) == FALSE

\* UNIQUE(restaurant_id, email) on customers.
UniqueViolation(table, restaurantId, email) ==
  \E i \in 1..Len(table) :
    table[i].restaurant_id = restaurantId /\ table[i].email = email

\* The row createCustomer inserts.
NewCustomer(restaurantId, customerData) ==
  [restaurant_id |-> restaurantId, email |-> customerData.email,
   phone |-> customerData.phone,
   total_points |-> 100, lifetime_points |-> 100,
   current_tier |-> "bronze", tier_progress |-> 0,
   visit_count |-> 0, total_spent |-> 0, last_visit |-> Null,
   is_active |-> TRUE]

ErrExists ==
  "A customer with this email or phone number already exists in this restaurant"
ErrDuplicateKey == "duplicate key value violates unique constraint"
ErrNoRow == "JSON object requested, multiple (or no) rows returned"

\* customerData.restaurant_id || await this.getCurrentRestaurantId()
CC_Start(p, customerData) ==
  /\ UNCHANGED identity
  /\ NextCaller(p)
  /\ pc' = [pc EXCEPT ![p] = "cc_check"]
  /\ args' = [args EXCEPT ![p] = [op |-> "createCustomer",
                                  customerData |-> customerData]]
  /\ local' = [local EXCEPT ![p] =
       [restaurantId |-> IF customerData.restaurant_id # Null
                           THEN Val(customerData.restaurant_id)
                           ELSE getCurrentRestaurantId,
        customerId |-> 0]]
  /\ UNCHANGED <<store, result>>

\* checkCustomerExists answers; an existing customer ends the call.
CC_Check(p) ==
  /\ UNCHANGED identity
  /\ pc[p] = "cc_check"
  /\ LET existing == checkCustomerExists(customers, args[p].customerData.email,
                       args[p].customerData.phone, local[p].restaurantId)
     IN IF existing # {}
          THEN /\ pc' = [pc EXCEPT ![p] = "done"]
               /\ result' = [result EXCEPT ![p] = Threw(ErrExists)]
          ELSE /\ pc' = [pc EXCEPT ![p] = "cc_insert"]
               /\ UNCHANGED result
  /\ UNCHANGED <<store, args, local>>

\* insert into customers; the unique constraint may reject the row.
CC_InsertCustomer(p) ==
  /\ UNCHANGED identity
  /\ pc[p] = "cc_insert"
  /\ IF UniqueViolation(customers, local[p].restaurantId,
                        args[p].customerData.email)
       THEN /\ pc' = [pc EXCEPT ![p] = "done"]
            /\ result' = [result EXCEPT ![p] = Threw(ErrDuplicateKey)]
            /\ UNCHANGED <<customers, local>>
       ELSE /\ customers' = Append(customers,
                 NewCustomer(local[p].restaurantId, args[p].customerData))
            /\ local' = [local EXCEPT ![p].customerId = Len(customers) + 1]
            /\ pc' = [pc EXCEPT ![p] = "cc_txn"]
            /\ UNCHANGED result
  /\ UNCHANGED <<rewards, transactions, redemptions, notifications, clock, args>>

\* insert the 'signup' transaction; the trigger runs with the insert.
CC_InsertTransaction(p) ==
  /\ UNCHANGED identity
  /\ pc[p] = "cc_txn"
  /\ LET NEWROW == TransactionRow(local[p].restaurantId, local[p].customerId,
                               "signup", 100, Null, clock + 1)
     IN /\ transactions' = Append(transactions, NEWROW)
        /\ customers' = update_customer_stats(customers, NEWROW)
        /\ clock' = clock + 1
  /\ IF args[p].customerData.restaurant_id = Null
       THEN /\ pc' = [pc EXCEPT ![p] = "cc_notify"]
            /\ UNCHANGED result
       ELSE /\ pc' = [pc EXCEPT ![p] = "done"]
            /\ result' = [result EXCEPT ![p] = Ok]
  /\ UNCHANGED <<rewards, redemptions, notifications, args, local>>

\* insert the 'New Customer Signup' notification (manager dashboard only)
CC_Notify(p) ==
  /\ UNCHANGED identity
  /\ pc[p] = "cc_notify"
  /\ notifications' = Append(notifications,
       [restaurant_id |-> local[p].restaurantId,
        title |-> "New Customer Signup", type |-> "success"])
  /\ pc' = [pc EXCEPT ![p] = "done"]
  /\ result' = [result EXCEPT ![p] = Ok]
  /\ UNCHANGED <<customers, rewards, transactions, redemptions, clock,
                 args, local>>

(***************************************************************************)
(* CustomerService.addPoints                                               *)
(***************************************************************************)
PointsDeltas == {-50, 40, 400}
AmountsSpent == {Null, Some(20)}

\* The tier the application derives from the new lifetime_points.
newTier(newLifetimePoints) ==
  IF newLifetimePoints >= 1000 THEN "gold"
  ELSE IF newLifetimePoints >= 500 THEN "silver"
  ELSE "bronze"

\* tierProgress as the application computes it (Math.round of n / 500 * 100).
tierProgress(newLifetimePoints) ==
  IF newLifetimePoints >= 1000 THEN 100
  ELSE IF newLifetimePoints >= 500 THEN RoundDiv5(newLifetimePoints - 500)
  ELSE RoundDiv5(newLifetimePoints)

\* The customer row as the update of addPoints leaves it.
addPointsUpdate(row, customer, points, amountSpent, now) ==
  [row EXCEPT
    !.total_points = customer.total_points + points,
    !.lifetime_points = customer.lifetime_points + points,
    !.current_tier = newTier(customer.lifetime_points + points),
    !.tier_progress = Min(tierProgress(customer.lifetime_points + points), 100),
    !.total_spent = customer.total_spent + OrZero(amountSpent),
    !.visit_count = customer.visit_count + (IF Truthy(amountSpent) THEN 1 ELSE 0),
    !.last_visit = Some(now)]

AP_Start(p, customerId, points, amountSpent) ==
  /\ UNCHANGED identity
  /\ NextCaller(p)
  /\ pc' = [pc EXCEPT ![p] = "ap_get"]
  /\ args' = [args EXCEPT ![p] = [op |-> "addPoints", customerId |-> customerId,
                                  points |-> points,
                                  amountSpent |-> amountSpent]]
  /\ local' = [local EXCEPT ![p] = [restaurantId |-> getCurrentRestaurantId,
                                    customer |-> << >>]]
  /\ UNCHANGED <<store, result>>

\* getCustomer: the row as it is now, or the error of .single()
AP_GetCustomer(p) ==
  /\ UNCHANGED identity
  /\ pc[p] = "ap_get"
  /\ LET response == SelectById(customers, args[p].customerId,
                                getCurrentRestaurantId)
     IN IF response.error
          THEN /\ pc' = [pc EXCEPT ![p] = "done"]
               /\ result' = [result EXCEPT ![p] = Threw(ErrNoRow)]
               /\ UNCHANGED local
          ELSE /\ local' = [local EXCEPT ![p].customer = response.data]
               /\ pc' = [pc EXCEPT ![p] = "ap_update"]
               /\ UNCHANGED result
  /\ UNCHANGED <<store, args>>

\* update customers with the totals computed from the row read
AP_UpdateCustomer(p) ==
  /\ UNCHANGED identity
  /\ pc[p] = "ap_update"
  /\ LET id == args[p].customerId
     IN customers' = [customers EXCEPT ![id] =
          addPointsUpdate(customers[id], local[p].customer[1], args[p].points,
                          args[p].amountSpent, clock)]
  /\ pc' = [pc EXCEPT ![p] = "ap_txn"]
  /\ UNCHANGED <<rewards, transactions, redemptions, notifications, clock,
                 args, local, result>>

\* insert the 'purchase' transaction; the trigger runs with the insert.
AP_InsertTransaction(p) ==
  /\ UNCHANGED identity
  /\ pc[p] = "ap_txn"
  /\ LET NEWROW == TransactionRow(local[p].restaurantId, args[p].customerId,
                               "purchase", args[p].points, args[p].amountSpent,
                               clock + 1)
     IN /\ transactions' = Append(transactions, NEWROW)
        /\ customers' = update_customer_stats(customers, NEWROW)
        /\ clock' = clock + 1
  /\ IF newTier(local[p].customer[1].lifetime_points + args[p].points)
          # local[p].customer[1].current_tier
       THEN /\ pc' = [pc EXCEPT ![p] = "ap_notify"]
            /\ UNCHANGED result
       ELSE /\ pc' = [pc EXCEPT ![p] = "done"]
            /\ result' = [result EXCEPT ![p] = Ok]
  /\ UNCHANGED <<rewards, redemptions, notifications, args, local>>

\* insert the 'Tier Upgrade' notification
AP_Notify(p) ==
  /\ UNCHANGED identity
  /\ pc[p] = "ap_notify"
  /\ notifications' = Append(notifications,
       [restaurant_id |-> local[p].restaurantId,
        title |-> "Tier Upgrade", type |-> "success"])
  /\ pc' = [pc EXCEPT ![p] = "done"]
  /\ result' = [result EXCEPT ![p] = Ok]
  /\ UNCHANGED <<customers, rewards, transactions, redemptions, clock,
                 args, local>>

(***************************************************************************)
(* The accrual model: an empty restaurant, managers who sign customers up  *)
(* and add points; each request is one createCustomer or addPoints call.   *)
(***************************************************************************)
InitAccrual ==
  /\ customers = << >>
  /\ rewards = << >>
  /\ transactions = << >>
  /\ redemptions = << >>
  /\ notifications = << >>
  /\ clock = 0
  /\ InitRequests
  /\ NoIdentityState

CustomerIds == 1..Cardinality(Emails)

\* What the caller passes as restaurant_id: nothing (the dashboard), or the
\* id the onboarding page takes from the form or the URL of the QR code.
SuppliedRestaurantIds ==
  {Null, Some(ActingRestaurant), Some(OtherRestaurant)}

NextAccrual ==
  \E p \in Procs :
    \/ \E e \in Emails, ph \in Phones, r \in SuppliedRestaurantIds :
         CC_Start(p, [email |-> e, phone |-> ph, restaurant_id |-> r])
    \/ CC_Check(p)
    \/ CC_InsertCustomer(p)
    \/ CC_InsertTransaction(p)
    \/ CC_Notify(p)
    \/ \E c \in CustomerIds, d \in PointsDeltas, a \in AmountsSpent :
         AP_Start(p, c, d, a)
    \/ AP_GetCustomer(p)
    \/ AP_UpdateCustomer(p)
    \/ AP_InsertTransaction(p)
    \/ AP_Notify(p)

SpecAccrual == InitAccrual /\ [][NextAccrual]_vars

(***************************************************************************)
(* Vocabulary of the redemption properties.  The checks are restated here  *)
(* from the rule book (points, tier rank, capacity), independently of the  *)
(* code's own tests above.                                                 *)
(***************************************************************************)
IsRedeem(p) == pc[p] # "idle" /\ args[p].op = "redeemReward"

\* Both selects of request p have answered.
HasRead(p) == IsRedeem(p) /\ local[p].got = {"customer", "reward"}

\* Both rows were found in the acting restaurant.
HasRows(p) ==
  HasRead(p) /\ ~local[p].customerResponse.error /\ ~local[p].rewardResponse.error

CustomerRead(p) == local[p].customerResponse.data[1]
RewardRead(p) == local[p].rewardResponse.data[1]

TierRank(t) == CASE t = "bronze" -> 1 [] t = "silver" -> 2 [] t = "gold" -> 3

ShortOfPoints(c, r) == c.total_points < r.points_required
BelowTier(c, r) == TierRank(c.current_tier) < TierRank(r.min_tier)
Exhausted(r) ==
  r.total_available # Null /\ r.total_redeemed >= Val(r.total_available)

ErrInsufficient == "Insufficient points"
ErrUnavailable == "Reward is no longer available"
ErrTier(t) == "Requires " \o t \o " tier or higher"
ErrNotFound ==
  {"Customer not found in your restaurant", "Reward not found in your restaurant"}

Finished(p) == pc[p] = "done"
Quiescent == \A p \in Procs : pc[p] \in {"idle", "done"}

\* Rows added to redemptions since the start, for customer c / reward w.
CreatedRows == SubSeq(redemptions, Len(InitRedemptions) + 1, Len(redemptions))
CreatedFor(w) == Count(CreatedRows, LAMBDA row : row.reward_id = w)

\* Request p has just taken a step of its own.
Stepped(p) == pc'[p] # pc[p]

(***************************************************************************)
(* C1.  A reward with exactly one redemption left and two concurrent       *)
(* redeemReward requests for it, by customers who can pay for and are      *)
(* entitled to every redemption they ask for: once both have finished,     *)
(* exactly one has succeeded, the other has failed with the 'unavailable'  *)
(* error, and exactly one Redemption row was created.                      *)
(***************************************************************************)
OneLeft(w) ==
  /\ InitRewards[w].total_available # Null
  /\ Val(InitRewards[w].total_available) - InitRewards[w].total_redeemed = 1

\* Customer c could pay for n redemptions of reward w and has the tier for it.
CanAfford(c, w, n) ==
  /\ InitCustomers[c].restaurant_id = ActingRestaurant
  /\ InitRewards[w].restaurant_id = ActingRestaurant
  /\ InitCustomers[c].total_points >= n * InitRewards[w].points_required
  /\ ~BelowTier(InitCustomers[c], InitRewards[w])

RacingPair(p, q) ==
  /\ p # q /\ Finished(p) /\ Finished(q)
  /\ IsRedeem(p) /\ IsRedeem(q)
  /\ args[p].rewardId = args[q].rewardId
  /\ OneLeft(args[p].rewardId)
  /\ \A o \in Procs \ {p, q} : pc[o] = "idle"
  /\ LET w == args[p].rewardId
         n(c) == Cardinality({o \in {p, q} : args[o].customerId = c})
     IN \A o \in {p, q} : CanAfford(args[o].customerId, w, n(args[o].customerId))

C1_OneWinnerOneUnavailable ==
  \A p, q \in Procs :
    RacingPair(p, q) =>
      /\ \E a, b \in {p, q} :
           /\ a # b
           /\ result[a] = Ok
           /\ result[b] = Threw(ErrUnavailable)
      /\ CreatedFor(args[p].rewardId) = 1

(***************************************************************************)
(* C2.  N concurrent identical redeemReward requests (same customer, same  *)
(* reward): after all have finished, the customer's total_points is the    *)
(* initial total_points minus points_required for every Redemption row     *)
(* that was created.                                                       *)
(***************************************************************************)
IdenticalRequests ==
  /\ \A p \in Procs : Finished(p) /\ IsRedeem(p)
  /\ \A p, q \in Procs : args[p] = args[q]

C2_DebitedOncePerRedemption ==
  IdenticalRequests =>
    LET c == args[1].customerId
        w == args[1].rewardId
    IN (c \in 1..Len(customers) /\ w \in 1..Len(rewards)) =>
         customers[c].total_points =
           InitCustomers[c].total_points
             - Len(CreatedRows) * InitRewards[w].points_required

(***************************************************************************)
(* C3.  A redeemReward whose customer row has fewer total_points than the  *)
(* reward requires ends with the insufficient-points error, and no step    *)
(* of that request changes the store: no Redemption row, no Notification,  *)
(* total_points and total_redeemed as they were.                           *)
(***************************************************************************)
C3_Case(p) == HasRows(p) /\ ShortOfPoints(CustomerRead(p), RewardRead(p))

C3_InsufficientRejected ==
  [][\A p \in Procs :
       (C3_Case(p) /\ Stepped(p)) =>
          /\ pc'[p] = "done"
          /\ result'[p] = Threw(ErrInsufficient)
          /\ UNCHANGED store]_vars

C3_Witness ==
  \E p \in Procs :
    C3_Case(p) /\ Finished(p) /\ result[p] = Threw(ErrInsufficient)

(***************************************************************************)
(* C4.  A redeemReward whose customer has enough points but a tier rank    *)
(* below the reward's min_tier (bronze < silver < gold) ends with the      *)
(* tier error that names the required tier, and no step of that request    *)
(* changes the store (250 points, bronze, 200-point silver reward).        *)
(***************************************************************************)
C4_Case(p) ==
  /\ HasRows(p)
  /\ ~ShortOfPoints(CustomerRead(p), RewardRead(p))
  /\ BelowTier(CustomerRead(p), RewardRead(p))

C4_TierRejected ==
  [][\A p \in Procs :
       (C4_Case(p) /\ Stepped(p)) =>
          /\ pc'[p] = "done"
          /\ result'[p] = Threw(ErrTier(RewardRead(p).min_tier))
          /\ UNCHANGED store]_vars

C4_Witness ==
  \E p \in Procs :
    /\ C4_Case(p) /\ Finished(p)
    /\ CustomerRead(p).total_points = 250
    /\ CustomerRead(p).current_tier = "bronze"
    /\ RewardRead(p).points_required = 200
    /\ result[p] = Threw("Requires silver tier or higher")
    /\ customers[args[p].customerId].total_points = 250

(***************************************************************************)
(* C5.  A redeemReward that passes every precondition and runs alone       *)
(* creates exactly one Redemption row (status 'pending', points_used =     *)
(* points_required), lowers total_points by points_required, raises        *)
(* total_redeemed by 1 and adds one 'info' Notification; nothing else in   *)
(* the store changes.                                                      *)
(***************************************************************************)
PassesAll(c, w) == CanAfford(c, w, 1) /\ ~Exhausted(InitRewards[w])

RanAlone(p) ==
  Finished(p) /\ IsRedeem(p) /\ \A o \in Procs \ {p} : pc[o] = "idle"

C5_SuccessEffects ==
  \A p \in Procs :
    (RanAlone(p) /\ PassesAll(args[p].customerId, args[p].rewardId)) =>
      LET c == args[p].customerId
          w == args[p].rewardId
          need == InitRewards[w].points_required
      IN /\ result[p] = Ok
         /\ Len(redemptions) = Len(InitRedemptions) + 1
         /\ redemptions[Len(redemptions)] =
              [restaurant_id |-> ActingRestaurant, customer_id |-> c,
               reward_id |-> w, points_used |-> need, status |-> "pending"]
         /\ SubSeq(redemptions, 1, Len(InitRedemptions)) = InitRedemptions
         /\ customers =
              [InitCustomers EXCEPT ![c].total_points = @ - need]
         /\ rewards = [InitRewards EXCEPT ![w].total_redeemed = @ + 1]
         /\ Len(notifications) = Len(InitNotifications) + 1
         /\ notifications[Len(notifications)].type = "info"
         /\ notifications[Len(notifications)].restaurant_id = ActingRestaurant
         /\ transactions = << >>

C5_Witness ==
  \E p \in Procs :
    /\ RanAlone(p) /\ result[p] = Ok
    /\ InitCustomers[args[p].customerId].total_points = 250
    /\ customers[args[p].customerId].total_points = 50

(***************************************************************************)
(* C6.  The preconditions are checked in the order not-found, insufficient *)
(* points, tier too low, unavailable, and the first failing check decides  *)
(* the error: a request that fails one of the first three checks reports   *)
(* the earliest check it fails, whatever else it fails.                    *)
(***************************************************************************)
FailedChecks(p) ==
  IF ~HasRows(p) THEN {1}
  ELSE {k \in {2, 3, 4} :
          \/ k = 2 /\ ShortOfPoints(CustomerRead(p), RewardRead(p))
          \/ k = 3 /\ BelowTier(CustomerRead(p), RewardRead(p))
          \/ k = 4 /\ Exhausted(RewardRead(p))}

FirstFailed(p) == CHOOSE k \in FailedChecks(p) : \A j \in FailedChecks(p) : k <= j

ErrorClass(r) ==
  IF r.ok THEN 0
  ELSE IF r.error \in ErrNotFound THEN 1
  ELSE IF r.error = ErrInsufficient THEN 2
  ELSE IF r.error = ErrUnavailable THEN 4
  ELSE 3

C6_FirstFailureWins ==
  \A p \in Procs :
    (HasRead(p) /\ Finished(p) /\ FailedChecks(p) \cap {1, 2, 3} # {}) =>
      /\ ErrorClass(result[p]) = FirstFailed(p)
      /\ ErrorClass(result[p]) = 3 =>
           result[p].error = ErrTier(RewardRead(p).min_tier)

C6_Witness ==
  \E p \in Procs :
    /\ HasRead(p) /\ Finished(p)
    /\ FailedChecks(p) = {2, 3, 4}
    /\ result[p] = Threw(ErrInsufficient)

(***************************************************************************)
(* C7.  For every reward with a finite total_available, 0 included, a      *)
(* redeemReward by a customer who passes the points and tier checks is     *)
(* rejected with the 'unavailable' error whenever total_redeemed >=        *)
(* total_available.                                                        *)
(***************************************************************************)
C7_Case(p) ==
  /\ HasRows(p)
  /\ ~ShortOfPoints(CustomerRead(p), RewardRead(p))
  /\ ~BelowTier(CustomerRead(p), RewardRead(p))
  /\ Exhausted(RewardRead(p))

C7_ExhaustedRejected ==
  [][\A p \in Procs :
       (C7_Case(p) /\ Stepped(p)) =>
          /\ pc'[p] = "done"
          /\ result'[p] = Threw(ErrUnavailable)
          /\ UNCHANGED store]_vars

(***************************************************************************)
(* Vocabulary of the accrual properties.  The tier rule is restated from   *)
(* the rule book: gold/100 from 1000 lifetime points, silver from 500 with *)
(* round((lifetime - 500) / 500 * 100), bronze below with                  *)
(* round(lifetime / 500 * 100).                                            *)
(***************************************************************************)
WelcomeBonus == 100

IsCreate(p) == pc[p] # "idle" /\ args[p].op = "createCustomer"
IsAddPoints(p) == pc[p] # "idle" /\ args[p].op = "addPoints"

RuleTier(lifetime) ==
  CASE lifetime >= 1000 -> "gold"
    [] lifetime >= 500 /\ lifetime < 1000 -> "silver"
    [] lifetime < 500 -> "bronze"

RuleProgress(lifetime) ==
  CASE lifetime >= 1000 -> 100
    [] lifetime >= 500 /\ lifetime < 1000 -> ((lifetime - 500) * 2 + 5) \div 10
    [] lifetime < 500 -> (lifetime * 2 + 5) \div 10

(***************************************************************************)
(* C8.  For every customer, 0 <= tier_progress <= 100 after any accrual:   *)
(* once an addPoints call on the customer has returned (its Transaction    *)
(* insert and the trigger included) and no other call is in flight, the    *)
(* stored tier_progress is in range.                                       *)
(***************************************************************************)
C8_ProgressInRange ==
  \A p \in Procs :
    (Quiescent /\ IsAddPoints(p) /\ Finished(p) /\ result[p] = Ok) =>
      LET row == customers[args[p].customerId]
      IN 0 <= row.tier_progress /\ row.tier_progress <= 100

(***************************************************************************)
(* C9.  In every state reached by createCustomer and addPoints calls (none *)
(* of them in flight), each customer's stored current_tier and             *)
(* tier_progress are the fixed function of its lifetime_points.            *)
(***************************************************************************)
C9_TierIsFunctionOfLifetime ==
  Quiescent =>
    \A c \in 1..Len(customers) :
      /\ customers[c].current_tier = RuleTier(customers[c].lifetime_points)
      /\ customers[c].tier_progress = RuleProgress(customers[c].lifetime_points)

(***************************************************************************)
(* C10.  Immediately after a successful createCustomer the new customer    *)
(* has lifetime_points equal to the welcome bonus and exactly one          *)
(* Transaction of kind 'signup' for that amount, the trigger that ran on   *)
(* the insert of that Transaction included.                                *)
(***************************************************************************)
C10_SignupGrantsWelcomeBonus ==
  \A p \in Procs :
    (IsCreate(p) /\ Finished(p) /\ result[p] = Ok
       /\ \A o \in Procs \ {p} : pc[o] = "idle") =>
      LET id == local[p].customerId
      IN /\ customers[id].lifetime_points = WelcomeBonus
         /\ Count(transactions, LAMBDA t :
              t.customer_id = id /\ t.type = "signup"
                /\ t.points = WelcomeBonus) = 1
         /\ Count(transactions, LAMBDA t : t.customer_id = id) = 1

(***************************************************************************)
(* Identity resolution (AuthContext.tsx).  A request is one call of        *)
(* initializeAuth or of the onAuthStateChange handler in the provider of   *)
(* an identity; both go on to fetchStaffData, which looks the identity's   *)
(* Membership up by user id, then by email (linking it), and otherwise     *)
(* provisions a Tenant with createRestaurantAndStaff.                       *)
(*                                                                         *)
(* The lookups return what the code's own filters select.  Which row-level *)
(* policies the store enforces on reads is not modelled: the migrations    *)
(* leave it open (shy_fountain replaces a restaurants_insert_policy that   *)
(* none of them creates).  The update policy of jade_gate is modelled.     *)
(***************************************************************************)
RestaurantRow(id, email) == [id |-> id, email |-> email]

StaffRow(id, restaurantId, userId, email, lastLogin) ==
  [id |-> id, restaurant_id |-> restaurantId, user_id |-> userId,
   email |-> email, last_login |-> lastLogin]

TierRow(restaurantId, tier) == [restaurant_id |-> restaurantId, tier |-> tier]

\* The store before anyone signs in: a tenant set up by hand (shy_gate),
\* with one Membership that waits to be linked to the identity that owns
\* email e1 and one that is linked to another identity (u0, whose account
\* has moved to a different email) while e3 now belongs to u3.  Nothing
\* exists for e2.
InitRestaurants == << RestaurantRow(1, "e0") >>

InitStaff ==
  << StaffRow(1, 1, Null, "e1", Null),
     StaffRow(2, 1, Some("u0"), "e3", Some(0)) >>

\* (a lookup that never finds a row: what C11 is checked against)
MaybeSingle_none(rows) == [error |-> FALSE, data |-> Null]

\* .maybeSingle(): data is null when no row matches, an error when several do
MaybeSingle(rows) ==
  [error |-> Cardinality(rows) > 1,
   data |-> IF Cardinality(rows) = 1 THEN rows ELSE Null]

\* .from('staff').select('*').eq('user_id', user.id)
staffData(table, user) ==
  {table[i] : i \in {j \in DOMAIN table : table[j].user_id = Some(user)}}

\* .from('staff').select('*').eq('email', user.email)
staffByEmail(table, user) ==
  {table[i] : i \in {j \in DOMAIN table : table[j].email = EmailOf[user]}}

\* policies on staff FOR UPDATE: USING of "Users can update their own staff
\* user_id" or of "Users can access their own staff record"
StaffUpdateUsing(row, user) ==
  row.email = EmailOf[user] \/ row.user_id = Some(user)

\* WITH CHECK (auth.uid() = user_id), on the row as updated
StaffUpdateCheck(row, user) == row.user_id = Some(user)

\* .update({ user_id: user.id, last_login: now, updated_at: now })
linkUpdate(row, user, now) ==
  [row EXCEPT !.user_id = Some(user), !.last_login = Some(now)]

\* the rows the link update writes: .eq('email', user.email)
LinkTargets(table, user) ==
  {i \in DOMAIN table :
     table[i].email = EmailOf[user] /\ StaffUpdateUsing(table[i], user)}

\* A slip: restaurants.email declared without UNIQUE.
RestaurantEmailTaken_none(table, email) == FALSE

\* restaurants.email is UNIQUE NOT NULL
RestaurantEmailTaken(table, email) ==
  \E i \in DOMAIN table : table[i].email = email

\* the three default loyalty tiers and the three default rewards
defaultTiers(restaurantId) ==
  << TierRow(restaurantId, "bronze"), TierRow(restaurantId, "silver"),
     TierRow(restaurantId, "gold") >>

defaultRewards(restaurantId) ==
  << RewardRow(restaurantId, 200, "bronze", Null, 0),
     RewardRow(restaurantId, 300, "silver", Null, 0),
     RewardRow(restaurantId, 1000, "gold", Null, 0) >>

WelcomeNotification(restaurantId) ==
  [restaurant_id |-> restaurantId,
   title |-> "Welcome to Your Restaurant Dashboard!", type |-> "success"]

\* What a store request comes back with.  The store can fail one request of
\* an execution (a dropped connection, a timeout): that request is answered
\* with an error and changes nothing.
Outcomes == IF fault = "armed" THEN {"ok", "error"} ELSE {"ok"}
Spent(outcome) == IF outcome = "error" THEN "spent" ELSE fault

AuthOps == {"initializeAuth", "onAuthStateChange"}
IsAuth(p) == args[p].op \in AuthOps
InFlight(p) == pc[p] \notin {"idle", "done"}

\* The run ended without a Membership / with one.
NoStaff(msg) == [done |-> TRUE, ok |-> FALSE, error |-> msg]

\* The locals of a fetchStaffData run, and two notes for the properties:
\* prior is the staff the provider held when the run started, alone is
\* whether no other request of this provider was under way then.
fetchStaffDataLocals(p, u) ==
  [restaurantId |-> "",
   prior |-> ctx[u].staff,
   alone |-> ~\E q \in Procs \ {p} :
                 IsAuth(q) /\ args[q].user = u /\ InFlight(q),
   staffRecord |-> Null,
   faulted |-> FALSE]

tenancy == <<restaurants, staff, loyalty_tiers>>

ClearTimeout(t) == IF t = "armed" THEN "cleared" ELSE t

\* useEffect: mounted = true; initializeAuth arms authTimeout (5000 ms) and
\* awaits getSession.
initializeAuth(p, u) ==
  /\ NextCaller(p)
  /\ ~ctx[u].mounted
  /\ ctx' = [ctx EXCEPT ![u].mounted = TRUE, ![u].authTimeout = "armed"]
  /\ pc' = [pc EXCEPT ![p] = "ia_getSession"]
  /\ args' = [args EXCEPT ![p] = [op |-> "initializeAuth", user |-> u]]
  /\ local' = [local EXCEPT ![p] = NoLocal]
  /\ UNCHANGED <<store, result, tenancy, fault>>

\* getSession answers: an error, no session, or the identity's session.  The
\* code that follows runs to the first await of fetchStaffData, which is not
\* awaited: loading is false before resolution has done anything.
getSession(p) ==
  /\ pc[p] = "ia_getSession"
  /\ LET u == args[p].user
     IN \E answer \in {"error", "none", "session"} :
          /\ ctx' = [ctx EXCEPT
               ![u].authTimeout = ClearTimeout(@),
               ![u].session = CASE answer = "error" -> @
                                [] answer = "none" -> Null
                                [] answer = "session" -> Some(u),
               ![u].user = CASE answer = "error" -> @
                             [] answer = "none" -> Null
                             [] answer = "session" -> Some(u),
               ![u].loading = FALSE]
          /\ IF answer = "session"
               THEN /\ pc' = [pc EXCEPT ![p] = "fs_test"]
                    /\ local' = [local EXCEPT ![p] = fetchStaffDataLocals(p, u)]
                    /\ UNCHANGED result
               ELSE /\ pc' = [pc EXCEPT ![p] = "done"]
                    /\ result' = [result EXCEPT ![p] = NoStaff(answer)]
                    /\ UNCHANGED local
  /\ UNCHANGED <<store, args, tenancy, fault>>

\* (a timer callback that leaves loading as it is: what C17 is checked
\* against)
timedOut_stillLoading(c) == [c EXCEPT !.authTimeout = "fired"]

\* the callback of setTimeout: setLoading(false)
timedOut(c) == [c EXCEPT !.authTimeout = "fired", !.loading = FALSE]

\* The 5-second timer goes off: if (mounted) setLoading(false).
authTimeoutFires(u) ==
  /\ ctx[u].authTimeout = "armed"
  /\ ctx[u].mounted
  /\ ctx' = [ctx EXCEPT ![u] = timedOut(@)]
  /\ UNCHANGED <<store, pc, args, local, result, tenancy, fault>>

\* The handler of supabase.auth.onAuthStateChange runs for an event that
\* carries the identity's session (SIGNED_IN, TOKEN_REFRESHED, ...) or none
\* (SIGNED_OUT).
onAuthStateChange(p, u, session) ==
  /\ NextCaller(p)
  /\ ctx[u].mounted
  /\ args' = [args EXCEPT ![p] = [op |-> "onAuthStateChange", user |-> u]]
  /\ IF session # Null
       THEN /\ ctx' = [ctx EXCEPT ![u].session = session, ![u].user = session,
                                  ![u].loading = FALSE]
            /\ pc' = [pc EXCEPT ![p] = "fs_test"]
            /\ local' = [local EXCEPT ![p] = fetchStaffDataLocals(p, u)]
            /\ UNCHANGED result
       ELSE /\ ctx' = [ctx EXCEPT ![u].session = Null, ![u].user = Null,
                                  ![u].staff = Null, ![u].loading = FALSE]
            /\ pc' = [pc EXCEPT ![p] = "done"]
            /\ result' = [result EXCEPT ![p] = NoStaff("none")]
            /\ local' = [local EXCEPT ![p] = NoLocal]
  /\ UNCHANGED <<store, tenancy, fault>>

\* fetchStaffData ends: setStaff(value); return.
setStaff(p, value, outcome) ==
  /\ ctx' = [ctx EXCEPT ![args[p].user].staff = value]
  /\ pc' = [pc EXCEPT ![p] = "done"]
  /\ result' = [result EXCEPT ![p] = outcome]

\* fetchStaffData goes on to its next await.
goOn(p, label) ==
  /\ pc' = [pc EXCEPT ![p] = label]
  /\ UNCHANGED <<ctx, result>>

noteFault(p, outcome) ==
  /\ fault' = Spent(outcome)
  /\ local' = [local EXCEPT ![p].faulted = @ \/ outcome = "error"]

\* "Test database connection first": select restaurant_id from staff limit 1
FS_TestConnection(p) ==
  /\ pc[p] = "fs_test"
  /\ \E outcome \in Outcomes :
       /\ noteFault(p, outcome)
       /\ IF outcome = "error"
            THEN setStaff(p, Null, NoStaff("connection"))
            ELSE goOn(p, "fs_userId")
  /\ UNCHANGED <<store, args, tenancy>>

\* "Try to find staff by user_id first"
FS_ByUserId(p) ==
  /\ pc[p] = "fs_userId"
  /\ \E outcome \in Outcomes :
       /\ noteFault(p, outcome)
       /\ LET found == MaybeSingle(staffData(staff, args[p].user))
          IN IF outcome = "error" \/ found.error
               THEN setStaff(p, Null, NoStaff("user_id lookup"))
               ELSE IF found.data # Null
                      THEN setStaff(p, found.data, Ok)
                      ELSE goOn(p, "fs_email")
  /\ UNCHANGED <<store, args, tenancy>>

\* "try to find by email": an error here is only logged and resolution goes
\* on to provisioning; an unlinked row is linked next; a linked row is taken
\* as it is.
FS_ByEmail(p) ==
  /\ pc[p] = "fs_email"
  /\ \E outcome \in Outcomes :
       /\ noteFault(p, outcome)
       /\ LET found == MaybeSingle(staffByEmail(staff, args[p].user))
          IN IF outcome = "error" \/ found.error
               THEN goOn(p, "crs_restaurant")
               ELSE IF found.data # Null /\ Val(found.data).user_id = Null
                      THEN goOn(p, "fs_link")
                      ELSE IF found.data # Null
                             THEN setStaff(p, found.data, Ok)
                             ELSE goOn(p, "crs_restaurant")
  /\ UNCHANGED <<store, args, tenancy>>

\* "Update the staff record with the user_id": every row with the email is
\* written, whatever its user_id is by now; .select().single() then wants
\* exactly one row back.
FS_Link(p) ==
  /\ pc[p] = "fs_link"
  /\ \E outcome \in Outcomes :
       /\ noteFault(p, outcome)
       /\ LET u == args[p].user
              targets == LinkTargets(staff, u)
              updated == [i \in DOMAIN staff |->
                            IF i \in targets THEN linkUpdate(staff[i], u, clock)
                                             ELSE staff[i]]
              accepted == /\ outcome = "ok"
                          /\ \A i \in targets : StaffUpdateCheck(updated[i], u)
          IN /\ staff' = IF accepted THEN updated ELSE staff
             /\ clock' = IF accepted THEN clock + 1 ELSE clock
             /\ IF accepted /\ Cardinality(targets) = 1
                  THEN setStaff(p, {updated[i] : i \in targets}, Ok)
                  ELSE setStaff(p, Null, NoStaff("link"))
  /\ UNCHANGED <<customers, rewards, transactions, redemptions, notifications,
                 args, restaurants, loyalty_tiers>>

\* createRestaurantAndStaff: insert into restaurants.  An error (the store's,
\* or the UNIQUE email) is thrown and caught: it returns null.
CRS_InsertRestaurant(p) ==
  /\ pc[p] = "crs_restaurant"
  /\ \E outcome \in Outcomes :
       /\ noteFault(p, outcome)
       /\ LET email == EmailOf[args[p].user]
              id == Len(restaurants) + 1
          IN IF outcome = "error" \/ RestaurantEmailTaken(restaurants, email)
               THEN /\ setStaff(p, Null, NoStaff("restaurant"))
                    /\ UNCHANGED restaurants
               ELSE /\ restaurants' = Append(restaurants, RestaurantRow(id, email))
                    /\ pc' = [pc EXCEPT ![p] = "crs_tiers"]
                    /\ UNCHANGED <<ctx, result>>
  /\ UNCHANGED <<store, args, staff, loyalty_tiers>>

\* restaurant.id of the row this run inserted
restaurantOf(p) ==
  CHOOSE i \in DOMAIN restaurants :
    restaurants[i].email = EmailOf[args[p].user]

\* insert the default loyalty tiers: an error is only logged
CRS_InsertTiers(p) ==
  /\ pc[p] = "crs_tiers"
  /\ \E outcome \in Outcomes :
       /\ noteFault(p, outcome)
       /\ loyalty_tiers' = IF outcome = "error" THEN loyalty_tiers
                           ELSE loyalty_tiers \o defaultTiers(restaurantOf(p))
  /\ goOn(p, "crs_rewards")
  /\ UNCHANGED <<store, args, restaurants, staff>>

\* insert the default rewards: an error is only logged
CRS_InsertRewards(p) ==
  /\ pc[p] = "crs_rewards"
  /\ \E outcome \in Outcomes :
       /\ noteFault(p, outcome)
       /\ rewards' = IF outcome = "error" THEN rewards
                     ELSE rewards \o defaultRewards(restaurantOf(p))
  /\ goOn(p, "crs_staff")
  /\ UNCHANGED <<customers, transactions, redemptions, notifications, clock,
                 args, tenancy>>

\* insert into staff: an error is thrown and caught, the call returns null
\* and the Tenant that was inserted stays behind.
CRS_InsertStaff(p) ==
  /\ pc[p] = "crs_staff"
  /\ \E outcome \in Outcomes :
       /\ fault' = Spent(outcome)
       /\ LET u == args[p].user
              row == StaffRow(Len(staff) + 1, restaurantOf(p), Some(u),
                              EmailOf[u], Some(clock))
          IN IF outcome = "error"
               THEN /\ setStaff(p, Null, NoStaff("staff"))
                    /\ local' = [local EXCEPT ![p].faulted = TRUE]
                    /\ UNCHANGED <<staff, clock>>
               ELSE /\ staff' = Append(staff, row)
                    /\ clock' = clock + 1
                    /\ local' = [local EXCEPT ![p].staffRecord = Some(row)]
                    /\ pc' = [pc EXCEPT ![p] = "crs_notify"]
                    /\ UNCHANGED <<ctx, result>>
  /\ UNCHANGED <<customers, rewards, transactions, redemptions, notifications,
                 args, restaurants, loyalty_tiers>>

\* insert the welcome notification (its outcome is not looked at), return
\* staffRecord; fetchStaffData sets it.
CRS_Notify(p) ==
  /\ pc[p] = "crs_notify"
  /\ \E outcome \in Outcomes :
       /\ noteFault(p, outcome)
       /\ notifications' =
            IF outcome = "error" THEN notifications
            ELSE Append(notifications,
                        WelcomeNotification(Val(local[p].staffRecord).restaurant_id))
  /\ setStaff(p, local[p].staffRecord, Ok)
  /\ UNCHANGED <<customers, rewards, transactions, redemptions, clock,
                 args, tenancy>>

(***************************************************************************)
(* The identity model: the hand-made tenant, three identities that open    *)
(* the application, and a store that can fail one request.                 *)
(***************************************************************************)
InitAuth ==
  /\ customers = << >>
  /\ rewards = << >>
  /\ transactions = << >>
  /\ redemptions = << >>
  /\ notifications = << >>
  /\ clock = 1
  /\ InitRequests
  /\ restaurants = InitRestaurants
  /\ staff = InitStaff
  /\ loyalty_tiers = << >>
  /\ ctx = [u \in Identities |-> Unmounted]
  /\ fault = "armed"

NextAuth ==
  \/ \E p \in Procs, u \in Identities : initializeAuth(p, u)
  \/ \E p \in Procs : getSession(p)
  \/ \E u \in Identities : authTimeoutFires(u)
  \/ \E p \in Procs, u \in Identities :
       \E session \in {Null, Some(u)} : onAuthStateChange(p, u, session)
  \/ \E p \in Procs :
       \/ FS_TestConnection(p)
       \/ FS_ByUserId(p)
       \/ FS_ByEmail(p)
       \/ FS_Link(p)
       \/ CRS_InsertRestaurant(p)
       \/ CRS_InsertTiers(p)
       \/ CRS_InsertRewards(p)
       \/ CRS_InsertStaff(p)
       \/ CRS_Notify(p)

SpecAuth == InitAuth /\ [][NextAuth]_vars

\* The browser runs a timer that is armed and not cleared: the callback of
\* setTimeout is not postponed forever.  Nothing is assumed about the
\* store or about getSession answering.
SpecAuthFair ==
  SpecAuth /\ \A u \in Identities : WF_vars(authTimeoutFires(u))

(***************************************************************************)
(* Vocabulary of the identity properties.                                  *)
(***************************************************************************)
\* p is a request that went into fetchStaffData
HasRun(p) == IsAuth(p) /\ pc[p] \notin {"idle", "ia_getSession"}
              /\ local[p] # NoLocal

UserOf(p) == args[p].user

\* the fetchStaffData runs of the provider of identity u
RunsOf(u) == {q \in Procs : HasRun(q) /\ UserOf(q) = u}

\* p is the later of two runs in a row: the runs of its provider came one
\* after the other, none overlapping another, and the one before p left a
\* Membership.
InARow(p) ==
  /\ HasRun(p)
  /\ local[p].prior # Null
  /\ \A q \in RunsOf(UserOf(p)) : local[q].alone

RowCounts ==
  <<Len(restaurants), Len(staff), Len(loyalty_tiers), Len(rewards),
    Len(notifications)>>

(***************************************************************************)
(* C11.  Identity resolution is idempotent: a fetchStaffData run that      *)
(* follows a run which returned a Membership, for the same identity and    *)
(* with no store error of its own, creates no Tenant, Membership, tier,    *)
(* reward or notification row in any of its steps and ends by setting the  *)
(* same Membership again.                                                  *)
(***************************************************************************)
C11_SecondRunIdempotent ==
  [][\A p \in Procs :
       (InARow(p) /\ Stepped(p) /\ ~local'[p].faulted) =>
          /\ RowCounts' = RowCounts
          /\ staff' = staff
          /\ (pc'[p] = "done" => ctx'[UserOf(p)].staff = local[p].prior)]_vars

\* A new identity was provisioned by its first run, and its second run has
\* ended with the Membership the first one created.
C11_Witness ==
  \E p \in Procs :
    /\ InARow(p) /\ pc[p] = "done" /\ ~local[p].faulted
    /\ ctx[UserOf(p)].staff = local[p].prior
    /\ Val(local[p].prior).user_id = Some(UserOf(p))
    /\ Val(local[p].prior).restaurant_id > Len(InitRestaurants)

(***************************************************************************)
(* C12.  Linking a Membership by email succeeds exactly once: whatever the *)
(* interleaving of two link attempts on the same email, the store keeps a  *)
(* single Membership per (tenant, email), and a link attempt never writes  *)
(* a Membership whose identity id is already set.                          *)
(***************************************************************************)
OneMembershipPerEmail(table) ==
  \A i, j \in DOMAIN table :
    (table[i].restaurant_id = table[j].restaurant_id
       /\ table[i].email = table[j].email) => i = j

C12_LinkedExactlyOnce ==
  [][\A p \in Procs :
       (pc[p] = "fs_link" /\ Stepped(p)) =>
          /\ OneMembershipPerEmail(staff')
          /\ \A i \in DOMAIN staff :
               staff[i].user_id # Null => staff'[i] = staff[i]]_vars

(***************************************************************************)
(* C13.  When identity resolution ends without a usable Membership the     *)
(* session is revoked: no state is reachable in which the resolution of an *)
(* identity has finished, its provider's user is set and its staff is      *)
(* null.                                                                   *)
(***************************************************************************)
\* every fetchStaffData run of u's provider has returned, and there is one
ResolutionFinished(u) ==
  /\ RunsOf(u) # {}
  /\ \A p \in RunsOf(u) : pc[p] = "done"

C13_FailedResolutionRevokesSession ==
  \A u \in Identities :
    ~(ResolutionFinished(u) /\ ctx[u].user # Null /\ ctx[u].staff = Null)

(***************************************************************************)
(* C14.  Provisioning that was interrupted after the Tenant insert and     *)
(* before the Membership insert is completed by a later resolution of the  *)
(* same identity: that run ends with a Membership for the identity, and    *)
(* there is exactly one Tenant with the identity's email.                  *)
(***************************************************************************)
\* q's staff insert failed: its Tenant is in the store without a Membership
Interrupted(q) == HasRun(q) /\ result[q] = NoStaff("staff")

TenantsOf(u) == {i \in DOMAIN restaurants : restaurants[i].email = EmailOf[u]}

\* p is a finished run that started after an interrupted one had returned
\* and met no store error itself
RetryOf(p, q) ==
  /\ Interrupted(q) /\ HasRun(p) /\ UserOf(p) = UserOf(q)
  /\ q < p /\ local[p].alone /\ pc[p] = "done" /\ ~local[p].faulted

C14_RetryCompletesProvisioning ==
  \A p, q \in Procs :
    RetryOf(p, q) =>
      /\ result[p] = Ok
      /\ ctx[UserOf(p)].staff # Null
      /\ Cardinality(TenantsOf(UserOf(p))) = 1

C17_LoadingEnds ==
  \A u \in Identities : ctx[u].mounted ~> ~ctx[u].loading

\* The timer has ended loading while getSession has still not answered.
C17_Witness ==
  \E p \in Procs :
    /\ pc[p] = "ia_getSession"
    /\ ctx[UserOf(p)].authTimeout = "fired"
    /\ ~ctx[UserOf(p)].loading

(***************************************************************************)
(* C15.  Customer reads and writes are scoped by the tenant of the acting  *)
(* identity's Membership and by nothing the client supplies: two           *)
(* createCustomer requests that differ only in the restaurant id they were *)
(* handed work on the rows of the same tenant, the acting one.             *)
(***************************************************************************)
DifferOnlyInRestaurantId(p, q) ==
  /\ IsCreate(p) /\ IsCreate(q)
  /\ args[p].customerData.email = args[q].customerData.email
  /\ args[p].customerData.phone = args[q].customerData.phone

C15_TenantFromMembershipOnly ==
  \A p, q \in Procs :
    DifferOnlyInRestaurantId(p, q) =>
      /\ local[p].restaurantId = local[q].restaurantId
      /\ local[p].restaurantId = getCurrentRestaurantId

(***************************************************************************)
(* C18.  lifetime_points is monotonically non-decreasing: no step of       *)
(* createCustomer, addPoints or redeemReward lowers the lifetime_points of *)
(* a customer row.                                                         *)
(***************************************************************************)
C18_LifetimeNeverDecreases ==
  [][\A i \in DOMAIN customers :
       customers'[i].lifetime_points >= customers[i].lifetime_points]_vars

(***************************************************************************)
(* C19.  Redemption creation is the only operation that decrements         *)
(* total_points: a step in which a customer's total_points goes down is    *)
(* the debit of a redeemReward request for that customer, never a step of  *)
(* addPoints.                                                              *)
(***************************************************************************)
DebitStepOf(p, i) ==
  /\ IsRedeem(p) /\ pc[p] = "rr_debit" /\ Stepped(p)
  /\ args[p].customerId = i

C19_OnlyRedemptionDecrements ==
  [][\A i \in DOMAIN customers :
       customers'[i].total_points < customers[i].total_points =>
         \E p \in Procs : DebitStepOf(p, i)]_vars

(***************************************************************************)
(* C20.  addPoints without an amount spent leaves the customer's           *)
(* visit_count, total_spent and last_visit as they were, and its insert    *)
(* appends exactly one transaction row.                                    *)
(***************************************************************************)
VisitFields(row) == <<row.visit_count, row.total_spent, row.last_visit>>

C20_NoAmountNoVisit ==
  [][\A p \in Procs :
       (/\ IsAddPoints(p) /\ Stepped(p)
        /\ pc[p] \in {"ap_update", "ap_txn"}
        /\ args[p].amountSpent = Null) =>
          /\ VisitFields(customers'[args[p].customerId])
               = VisitFields(customers[args[p].customerId])
          /\ (pc[p] = "ap_txn" =>
                Len(transactions') = Len(transactions) + 1)]_vars

(***************************************************************************)
(* redeemReward against a store that fails one request.  Each of the three *)
(* writes is followed by `if (error) throw error`: when the store answers  *)
(* with an error the call ends there and nothing written before is undone. *)
(***************************************************************************)
ErrStore == "store error"

\* The write request p is suspended at fails; the error is thrown.
RR_StoreError(p) ==
  /\ fault = "armed"
  /\ pc[p] \in {"rr_insert", "rr_debit", "rr_count"}
  /\ fault' = "spent"
  /\ pc' = [pc EXCEPT ![p] = "done"]
  /\ result' = [result EXCEPT ![p] = Threw(ErrStore)]
  /\ UNCHANGED <<store, args, local, restaurants, staff, loyalty_tiers, ctx>>

InitRedeemFault ==
  /\ customers = InitCustomers
  /\ rewards = InitRewards
  /\ transactions = << >>
  /\ redemptions = InitRedemptions
  /\ notifications = InitNotifications
  /\ clock = 4
  /\ InitRequests
  /\ restaurants = << >>
  /\ staff = << >>
  /\ loyalty_tiers = << >>
  /\ ctx = [u \in Identities |-> Unmounted]
  /\ fault = "armed"

NextRedeemFault ==
  \E p \in Procs :
    \/ \E call \in RedeemCalls : RR_Start(p, call[1], call[2])
    \/ RR_ReadCustomer(p)
    \/ RR_ReadReward(p)
    \/ RR_Validate(p)
    \/ RR_InsertRedemption(p)
    \/ RR_UpdateCustomer(p)
    \/ RR_UpdateReward(p)
    \/ RR_Notify(p)
    \/ RR_StoreError(p)

SpecRedeemFault == InitRedeemFault /\ [][NextRedeemFault]_vars

RedemptionsOf(rewardId) ==
  {i \in DOMAIN redemptions : redemptions[i].reward_id = rewardId}

(***************************************************************************)
(* C21.  A Redemption row is created atomically with its debit and counter *)
(* increment: whenever no request is in flight, also after a store error   *)
(* in the middle of redeemReward, every reward's total_redeemed counts     *)
(* exactly the Redemption rows that exist for it.                          *)
(***************************************************************************)
C21_RedemptionAtomic ==
  Quiescent =>
    \A r \in DOMAIN rewards :
      rewards[r].total_redeemed = Cardinality(RedemptionsOf(r))

(***************************************************************************)
(* The accrual rule in its two places.  From one customer row, the totals  *)
(* CustomerService.addPoints computes and writes are set beside the row    *)
(* update_customer_stats leaves for a Transaction of the same points.      *)
(***************************************************************************)
PriorLifetimes == {0, 100, 250, 460, 480, 500, 750, 960, 1000, 1200}

\* A customer row whose tier columns follow the application's rule.
PriorCustomer(lifetime) ==
  CustomerRow(ActingRestaurant, "e1", Null, lifetime, lifetime,
              newTier(lifetime), tierProgress(lifetime), 0, Null)

\* A request that will put the points through both computations.
Rule_Start(p, points) ==
  /\ UNCHANGED identity
  /\ NextCaller(p)
  /\ pc' = [pc EXCEPT ![p] = "rule_application"]
  /\ args' = [args EXCEPT ![p] = [op |-> "accrualRule", customerId |-> 1,
                                  points |-> points]]
  /\ local' = [local EXCEPT ![p] = [restaurantId |-> getCurrentRestaurantId,
                                    application |-> << >>,
                                    trigger |-> << >>]]
  /\ UNCHANGED <<store, result>>

\* The row as the update of addPoints would leave it.
Rule_Application(p) ==
  /\ UNCHANGED identity
  /\ pc[p] = "rule_application"
  /\ local' = [local EXCEPT ![p].application =
       << addPointsUpdate(customers[1], customers[1], args[p].points,
                          Null, clock) >>]
  /\ pc' = [pc EXCEPT ![p] = "rule_trigger"]
  /\ UNCHANGED <<store, args, result>>

\* The row as the trigger would leave it for a Transaction of the points.
Rule_Trigger(p) ==
  /\ UNCHANGED identity
  /\ pc[p] = "rule_trigger"
  /\ local' = [local EXCEPT ![p].trigger =
       << update_customer_stats(customers,
            TransactionRow(local[p].restaurantId, 1, "purchase",
                           args[p].points, Null, clock))[1] >>]
  /\ pc' = [pc EXCEPT ![p] = "done"]
  /\ result' = [result EXCEPT ![p] = Ok]
  /\ UNCHANGED <<store, args>>

InitRule ==
  /\ \E lifetime \in PriorLifetimes : customers = << PriorCustomer(lifetime) >>
  /\ rewards = << >>
  /\ transactions = << >>
  /\ redemptions = << >>
  /\ notifications = << >>
  /\ clock = 1
  /\ InitRequests
  /\ NoIdentityState

NextRule ==
  \E p \in Procs :
    \/ \E points \in PointsDeltas : Rule_Start(p, points)
    \/ Rule_Application(p)
    \/ Rule_Trigger(p)

SpecRule == InitRule /\ [][NextRule]_vars

RuleFields(row) ==
  <<row.lifetime_points, row.current_tier, row.tier_progress>>

(***************************************************************************)
(* C22.  The accrual rule is the same in both places: for every prior      *)
(* lifetime_points and every points delta, addPoints and the trigger       *)
(* update_customer_stats produce the same lifetime_points, the same tier   *)
(* and the same tier_progress.                                             *)
(***************************************************************************)
C22_RuleMirrored ==
  \A p \in Procs :
    (pc[p] = "done" /\ args[p].op = "accrualRule") =>
      RuleFields(local[p].application[1]) = RuleFields(local[p].trigger[1])

(***************************************************************************)
(* The ledger model: customers who earn and spend.  The requests are the   *)
(* addPoints calls the dashboard issues (it rejects points <= 0 before it  *)
(* calls the service), here without an amount spent, and redeemReward      *)
(* calls, on the tables the redemption model starts from.                  *)
(***************************************************************************)
\* handleAddPoints: if (isNaN(points) || points <= 0) return
PositiveDeltas == {d \in PointsDeltas : d > 0}

LedgerCustomers == {1, 2}
LedgerRewards == {1, 3}

NextLedger ==
  \E p \in Procs :
    \/ \E c \in LedgerCustomers, r \in LedgerRewards : RR_Start(p, c, r)
    \/ RR_ReadCustomer(p)
    \/ RR_ReadReward(p)
    \/ RR_Validate(p)
    \/ RR_InsertRedemption(p)
    \/ RR_UpdateCustomer(p)
    \/ RR_UpdateReward(p)
    \/ RR_Notify(p)
    \/ \E c \in LedgerCustomers, d \in PositiveDeltas :
         AP_Start(p, c, d, Null)
    \/ AP_GetCustomer(p)
    \/ AP_UpdateCustomer(p)
    \/ AP_InsertTransaction(p)
    \/ AP_Notify(p)

SpecLedger == InitRedeem /\ [][NextLedger]_vars

(***************************************************************************)
(* C23.  total_points >= 0 for every customer in every reachable state,    *)
(* for any interleaving of addPoints calls with positive points and        *)
(* redeemReward calls; the redemption validator is the only guard.         *)
(***************************************************************************)
C23_BalanceNeverNegative ==
  \A c \in DOMAIN customers : customers[c].total_points >= 0

\* A redemption and an accrual on customer 1 have both returned, and the
\* balance is the one only their overlap produces: the debit computed from
\* the 400 points read before the accrual was stored.
C23_Witness ==
  \E p, q \in Procs :
    /\ IsRedeem(p) /\ pc[p] = "done" /\ result[p] = Ok
    /\ IsAddPoints(q) /\ pc[q] = "done" /\ result[q] = Ok
    /\ args[p].customerId = 1 /\ args[q].customerId = 1
    /\ customers[1].total_points = 200

(***************************************************************************)
(* The signup model: an empty store and createCustomer calls only, from    *)
(* the dashboard and from the onboarding page.                             *)
(***************************************************************************)
NextSignup ==
  \E p \in Procs :
    \/ \E e \in Emails, ph \in Phones, r \in SuppliedRestaurantIds :
         CC_Start(p, [email |-> e, phone |-> ph, restaurant_id |-> r])
    \/ CC_Check(p)
    \/ CC_InsertCustomer(p)
    \/ CC_InsertTransaction(p)
    \/ CC_Notify(p)

SpecSignup == InitAccrual /\ [][NextSignup]_vars

Tenants == {ActingRestaurant, OtherRestaurant}

CustomersOf(t, e) ==
  {i \in DOMAIN customers :
     customers[i].restaurant_id = t /\ customers[i].email = e}

\* The createCustomer calls made for tenant t and email e.
SignupsOf(t, e) ==
  {p \in Procs : /\ IsCreate(p)
                 /\ local[p].restaurantId = t
                 /\ args[p].customerData.email = e}

\* Calls for (t, e) are all the calls there have been, and all have returned.
OnlySignupsOf(t, e) ==
  /\ SignupsOf(t, e) # {}
  /\ \A p \in Procs : pc[p] = "idle" \/ (p \in SignupsOf(t, e) /\ pc[p] = "done")

(***************************************************************************)
(* C24.  Customers are unique per (tenant, email): there is never more     *)
(* than one customer row for a tenant and an email, and once createCustomer*)
(* calls for the same tenant and email, interleaved in any way, have       *)
(* returned, exactly one row exists, one call has succeeded, every other   *)
(* call has returned an error, and only the one signup Transaction has     *)
(* been appended.                                                          *)
(***************************************************************************)
C24_UniquePerTenantEmail ==
  \A t \in Tenants, e \in Emails :
    /\ Cardinality(CustomersOf(t, e)) <= 1
    /\ OnlySignupsOf(t, e) =>
         /\ Cardinality(CustomersOf(t, e)) = 1
         /\ Cardinality({p \in SignupsOf(t, e) : result[p] = Ok}) = 1
         /\ \A p \in SignupsOf(t, e) : result[p] # Ok => ~result[p].ok
         /\ Len(transactions) = 1
         /\ transactions[1].type = "signup"

\* Two calls for one tenant and email overlapped: both passed the existence
\* check, and the one that inserted second was turned away by the store.
C24_Witness ==
  \E t \in Tenants, e \in Emails :
    /\ OnlySignupsOf(t, e)
    /\ \E p \in SignupsOf(t, e) : result[p] = Threw(ErrDuplicateKey)
    /\ \E p \in SignupsOf(t, e) : result[p] = Ok

(***************************************************************************)
(* C25.  Two resolutions of one new identity that run concurrently (the    *)
(* one initializeAuth starts and the one the auth-state-change listener    *)
(* starts) create at most one Tenant and at most one Membership for the    *)
(* identity, in every interleaving, and there is never more than one       *)
(* Membership per (tenant, email).                                         *)
(***************************************************************************)
\* The identities the store knows nothing of before they sign in.
NewIdentities ==
  {u \in Identities :
     /\ \A i \in DOMAIN InitStaff :
          InitStaff[i].user_id # Some(u) /\ InitStaff[i].email # EmailOf[u]
     /\ \A i \in DOMAIN InitRestaurants : InitRestaurants[i].email # EmailOf[u]}

MembershipsOf(u) == {i \in DOMAIN staff : staff[i].user_id = Some(u)}

C25_ConcurrentResolutionCreatesOnce ==
  /\ \A u \in NewIdentities :
       /\ Cardinality(TenantsOf(u)) <= 1
       /\ Cardinality(MembershipsOf(u)) <= 1
  /\ OneMembershipPerEmail(staff)

\* Two resolutions of a new identity overlapped and have both returned
\* without a store error: one provisioned the Tenant and the Membership,
\* the other was turned away at the Tenant insert.
C25_Witness ==
  \E u \in NewIdentities :
    \E p, q \in RunsOf(u) :
      /\ ~local[p].alone \/ ~local[q].alone
      /\ ~local[p].faulted /\ ~local[q].faulted
      /\ result[p] = Ok /\ result[q] = NoStaff("restaurant")
      /\ Cardinality(TenantsOf(u)) = 1
      /\ Cardinality(MembershipsOf(u)) = 1

(***************************************************************************)
(* C26.  Once every fetchStaffData run of the signed-in identity has       *)
(* finished, the provider's staff is non-null exactly when a Membership    *)
(* linked to the identity exists in the store: a slower run that failed    *)
(* does not overwrite with null the Membership a run that succeeded set.   *)
(***************************************************************************)
C26_StaffMirrorsStore ==
  \A u \in Identities :
    (ResolutionFinished(u) /\ ctx[u].user # Null) =>
      (ctx[u].staff # Null <=> MembershipsOf(u) # {})

(***************************************************************************)
(* C27.  In every reachable state of an AuthProvider, staff non-null       *)
(* implies user non-null: once an auth event without a session (the one    *)
(* signOut raises) has cleared user, staff and session, a fetchStaffData   *)
(* run still in flight does not set staff to a Membership again.           *)
(***************************************************************************)
C27_NoStaffWithoutUser ==
  \A u \in Identities : ctx[u].staff # Null => ctx[u].user # Null

(***************************************************************************)
(* C28.  Every reward that has a total_available cap has                   *)
(* total_redeemed <= total_available in every reachable state, for any     *)
(* interleaving of redeemReward requests, starting from tables where this  *)
(* holds.                                                                  *)
(***************************************************************************)
C28_RedeemedWithinCap ==
  \A r \in DOMAIN rewards :
    rewards[r].total_available # Null =>
      rewards[r].total_redeemed <= Val(rewards[r].total_available)

(***************************************************************************)
(* C29.  Whenever no operation is in flight, each customer's               *)
(* lifetime_points equals the sum of the points of that customer's         *)
(* Transaction rows, for any interleaving of createCustomer and addPoints  *)
(* calls: no accrual is lost and none is counted twice.                    *)
(***************************************************************************)
RECURSIVE LedgerPoints(_, _)
\* The points of the first n Transaction rows of customer c, added up.
LedgerPoints(c, n) ==
  IF n = 0 THEN 0
  ELSE LedgerPoints(c, n - 1)
         + (IF transactions[n].customer_id = c THEN transactions[n].points ELSE 0)

C29_LifetimeIsLedgerSum ==
  Quiescent =>
    \A c \in DOMAIN customers :
      customers[c].lifetime_points = LedgerPoints(c, Len(transactions))

(***************************************************************************)
(* The onboarding page (OnboardingFlow, SMSService and the wallet's        *)
(* handleOnboardingComplete).  A request is one browser showing the page:  *)
(* local[p] is the React state of its OnboardingFlow, together with the    *)
(* handleSignup and handleVerification calls that are suspended at an      *)
(* await.  A text is the sequence of its characters: a digit is itself,    *)
(* any other character is NonDigit.                                        *)
(***************************************************************************)
NonDigit == 0 - 1

IsDigit(ch) == ch \in 0..9

\* phoneNumber.replace(/\D/g, '')
Cleaned(text) == SelectSeq(text, IsDigit)

StartsWith(text, prefix) ==
  Len(text) >= Len(prefix) /\ SubSeq(text, 1, Len(prefix)) = prefix

\* SMSService.isValidPhoneNumber
isValidPhoneNumber(phoneNumber) ==
  LET cleaned == Cleaned(phoneNumber)
  IN IF Len(cleaned) < 10 \/ Len(cleaned) > 15 THEN FALSE
     ELSE IF StartsWith(cleaned, <<9, 7, 1>>) THEN Len(cleaned) = 12
     ELSE IF StartsWith(cleaned, <<1>>) /\ Len(cleaned) = 11 THEN TRUE
     ELSE IF ~StartsWith(cleaned, <<1>>) /\ Len(cleaned) = 10 THEN TRUE
     ELSE Len(cleaned) >= 10 /\ Len(cleaned) <= 15

\* SMSService.sendVerificationCode in DEMO_MODE: { success }
sendVerificationCode(phoneNumber) == isValidPhoneNumber(phoneNumber)

\* SMSService.verifyCode in DEMO_MODE: any four digits are accepted
verifyCode(phoneNumber, code) ==
  Len(code) = 4 /\ \A i \in DOMAIN code : IsDigit(code[i])

\* What is typed into the phone field: a UAE mobile number as the form
\* formats it, and the same number with a digit missing.
UaeNumber == <<NonDigit, 9, 7, 1, NonDigit, 5, 0, NonDigit, 1, 2, 3, NonDigit, 4, 5, 6, 7>>
UaeNumberShort == <<NonDigit, 9, 7, 1, NonDigit, 5, 0, NonDigit, 1, 2, 3, NonDigit, 4, 5, 6>>

\* The forms filled in: a customer of the acting restaurant (e2), somebody
\* who is nobody's customer yet (e3), and e3 with the incomplete number.
FormInputs ==
  {[email |-> "e2", phone |-> UaeNumber],
   [email |-> "e3", phone |-> UaeNumber],
   [email |-> "e3", phone |-> UaeNumberShort]}

\* the code field keeps digits only, four at most
CodeInputs == {<<1, 2, 3, 4>>}

\* the page is opened from the QR code of the acting restaurant
PageRestaurantIds == {Some(ActingRestaurant)}

\* `phone && phone.trim() !== ''` decides whether the phone is part of a query
PhoneArg(phone) == IF phone = << >> THEN Null ELSE Some(phone)

\* `if (existing)` in handleSignup, with the check left out
CustomerFound_ignored(existing) == FALSE

\* `if (existing)` in handleSignup
CustomerFound(existing) == existing # {}

\* What is typed into the login field: an email address or a phone number
\* (the text typed, as the email it can equal and the phone it can equal).
LoginInputs ==
  {[email |-> "e2", phone |-> << >>], [email |-> "", phone |-> UaeNumber]}

\* the query of findCustomerForLogin: the ids of the rows it returns
findCustomerForLogin(table, emailOrPhone, targetRestaurantId) ==
  {i \in 1..Len(table) :
     /\ table[i].restaurant_id = targetRestaurantId
     /\ table[i].is_active
     /\ \/ table[i].email = emailOrPhone.email
        \/ (emailOrPhone.phone # << >>
              /\ table[i].phone = Some(emailOrPhone.phone))}

\* `restaurantId || await this.getCurrentRestaurantId()`
TargetRestaurant(restaurantId) ==
  IF restaurantId # Null THEN Val(restaurantId) ELSE getCurrentRestaurantId

\* The state of a freshly mounted OnboardingFlow.  entry and verified are
\* notes for the properties: what the handleSignup call that set the step
\* to 'verify' had been answered (the form it asked about, whether
\* checkCustomerExists found somebody, whether the code was sent), and the
\* numbers a code was accepted for.
Mounted(restaurantId) ==
  [restaurantId |-> "", restaurantIdProp |-> restaurantId,
   currentStep |-> "welcome",
   formData |-> [email |-> "", phone |-> << >>],
   verification |-> [code |-> << >>, isVerifying |-> FALSE,
                     phoneNumber |-> << >>],
   isLoading |-> FALSE, existingCustomer |-> Null,
   signup |-> Null, verify |-> Null,
   entry |-> Null, verified |-> {}]

IsOnboarding(p) == pc[p] = "ob"

\* The page opens, with the restaurant id of the URL if there is one.
OB_Mount(p, restaurantId) ==
  /\ UNCHANGED identity
  /\ NextCaller(p)
  /\ pc' = [pc EXCEPT ![p] = "ob"]
  /\ args' = [args EXCEPT ![p] = [op |-> "onboarding"]]
  /\ local' = [local EXCEPT ![p] = Mounted(restaurantId)]
  /\ UNCHANGED <<store, result>>

\* The buttons that only change the step: 'Join', 'Sign in', the two
\* 'Back to welcome' and 'Back to signup'.
OB_Navigate(p, step) ==
  /\ UNCHANGED identity
  /\ IsOnboarding(p)
  /\ \/ local[p].currentStep = "welcome" /\ step \in {"signup", "login"}
     \/ local[p].currentStep \in {"signup", "login"} /\ step = "welcome"
     \/ local[p].currentStep = "verify" /\ step = "signup"
  /\ local' = [local EXCEPT
       ![p].currentStep = step,
       ![p].existingCustomer =
          IF local[p].currentStep = "signup" THEN Null ELSE @]
  /\ UNCHANGED <<store, pc, args, result>>

\* handleInputChange on the signup form; the fields stay editable while
\* handleSignup is waiting.
OB_Input(p, form) ==
  /\ UNCHANGED identity
  /\ IsOnboarding(p)
  /\ local[p].currentStep = "signup"
  /\ local[p].formData # form
  /\ local' = [local EXCEPT ![p].formData = form]
  /\ UNCHANGED <<store, pc, args, result>>

\* the code field of the verify step
OB_CodeInput(p, code) ==
  /\ UNCHANGED identity
  /\ IsOnboarding(p)
  /\ local[p].currentStep = "verify"
  /\ local[p].verification.code # code
  /\ local' = [local EXCEPT ![p].verification.code = code]
  /\ UNCHANGED <<store, pc, args, result>>

\* The submit button of the signup form is enabled.
SignupEnabled(p) ==
  /\ local[p].formData.email # ""
  /\ local[p].formData.phone # << >>
  /\ isValidPhoneNumber(local[p].formData.phone)
  /\ ~local[p].isLoading

\* handleSignup up to its first await: the form is validated and
\* checkCustomerExists is called with the form as it is now.
OB_Signup(p) ==
  /\ UNCHANGED identity
  /\ IsOnboarding(p)
  /\ local[p].currentStep = "signup"
  /\ SignupEnabled(p)
  /\ local' = [local EXCEPT
       ![p].existingCustomer = Null,
       ![p].isLoading = isValidPhoneNumber(local[p].formData.phone),
       ![p].signup = IF isValidPhoneNumber(local[p].formData.phone)
                       THEN Some([await |-> "checkCustomerExists",
                                  formData |-> local[p].formData,
                                  found |-> FALSE])
                       ELSE Null]
  /\ UNCHANGED <<store, pc, args, result>>

\* checkCustomerExists answers: an existing customer ends handleSignup,
\* otherwise the verification code is sent.
OB_SignupChecked(p) ==
  /\ UNCHANGED identity
  /\ IsOnboarding(p)
  /\ local[p].signup # Null
  /\ Val(local[p].signup).await = "checkCustomerExists"
  /\ LET form == Val(local[p].signup).formData
         existing == checkCustomerExists(customers, form.email,
                       PhoneArg(form.phone),
                       TargetRestaurant(local[p].restaurantIdProp))
     IN local' = [local EXCEPT
          ![p].existingCustomer =
             IF CustomerFound(existing)
               THEN Some(CHOOSE i \in existing : \A j \in existing : i <= j)
               ELSE @,
          ![p].isLoading = IF CustomerFound(existing) THEN FALSE ELSE @,
          ![p].signup =
             IF CustomerFound(existing) THEN Null
             ELSE Some([await |-> "sendVerificationCode", formData |-> form,
                        found |-> existing # {}])]
  /\ UNCHANGED <<store, pc, args, result>>

\* sendVerificationCode answers: on success the verify step is entered for
\* the number the code was sent to.
OB_SignupSent(p) ==
  /\ UNCHANGED identity
  /\ IsOnboarding(p)
  /\ local[p].signup # Null
  /\ Val(local[p].signup).await = "sendVerificationCode"
  /\ LET form == Val(local[p].signup).formData
         success == sendVerificationCode(form.phone)
     IN local' = [local EXCEPT
          ![p].entry = IF success
                         THEN Some([formData |-> form, sent |-> success,
                                    found |-> Val(local[p].signup).found])
                         ELSE @,
          ![p].verification.phoneNumber = IF success THEN form.phone ELSE @,
          ![p].currentStep = IF success THEN "verify" ELSE @,
          ![p].isLoading = FALSE,
          ![p].signup = Null]
  /\ UNCHANGED <<store, pc, args, result>>

\* onComplete for a customer that exists: handleOnboardingComplete loads it.
OnCompleteExisting(p, customerId) ==
  /\ pc' = [pc EXCEPT ![p] = "done"]
  /\ args' = [args EXCEPT ![p] = [op |-> "onComplete",
                                  customerId |-> Some(customerId)]]
  /\ result' = [result EXCEPT ![p] = Ok]
  /\ UNCHANGED <<store, local>>

\* handleExistingCustomerLogin: 'Continue with existing account'
OB_ExistingLogin(p) ==
  /\ UNCHANGED identity
  /\ IsOnboarding(p)
  /\ local[p].currentStep = "signup"
  /\ local[p].existingCustomer # Null
  /\ OnCompleteExisting(p, Val(local[p].existingCustomer))

\* handleLogin: findCustomerForLogin answers with a customer
OB_Login(p, emailOrPhone) ==
  /\ UNCHANGED identity
  /\ IsOnboarding(p)
  /\ local[p].currentStep = "login"
  /\ ~local[p].isLoading
  /\ LET customer == findCustomerForLogin(customers, emailOrPhone,
                       TargetRestaurant(local[p].restaurantIdProp))
     IN /\ customer # {}
        /\ OnCompleteExisting(p, CHOOSE i \in customer :
                                   \A j \in customer : i <= j)

\* handleVerification up to its await: 'Verify & Continue' is enabled with
\* four characters in the code field.
OB_Verify(p) ==
  /\ UNCHANGED identity
  /\ IsOnboarding(p)
  /\ local[p].currentStep = "verify"
  /\ Len(local[p].verification.code) = 4
  /\ ~local[p].verification.isVerifying
  /\ local' = [local EXCEPT
       ![p].verification.isVerifying = TRUE,
       ![p].verify = Some([phoneNumber |-> local[p].verification.phoneNumber,
                           code |-> local[p].verification.code,
                           formData |-> local[p].formData])]
  /\ UNCHANGED <<store, pc, args, result>>

\* verifyCode answers.  On success onComplete is called without a
\* customerId, and handleOnboardingComplete calls createCustomer with the
\* form and `userData.restaurantId || restaurantIdFromURL`; the page stays
\* behind in local[p].flow.
OB_Verified(p) ==
  /\ UNCHANGED identity
  /\ IsOnboarding(p)
  /\ local[p].verify # Null
  /\ LET call == Val(local[p].verify)
         restaurant_id == local[p].restaurantIdProp
     IN IF verifyCode(call.phoneNumber, call.code)
          THEN /\ pc' = [pc EXCEPT ![p] = "cc_check"]
               /\ args' = [args EXCEPT ![p] =
                    [op |-> "createCustomer",
                     customerData |-> [email |-> call.formData.email,
                                       phone |-> PhoneArg(call.formData.phone),
                                       restaurant_id |-> restaurant_id]]]
               /\ local' = [local EXCEPT ![p] =
                    [restaurantId |-> TargetRestaurant(restaurant_id),
                     customerId |-> 0,
                     flow |-> [local[p] EXCEPT
                                 !.verified = @ \cup {call.phoneNumber},
                                 !.verify = Null]]]
          ELSE /\ local' = [local EXCEPT
                    ![p].verification.isVerifying = FALSE,
                    ![p].verify = Null]
               /\ UNCHANGED <<pc, args>>
  /\ UNCHANGED <<store, result>>

(***************************************************************************)
(* The onboarding model: browsers that open the page of a restaurant whose *)
(* customers are those the redemption model starts from.                   *)
(***************************************************************************)
InitOnboarding ==
  /\ customers = InitCustomers
  /\ rewards = << >>
  /\ transactions = << >>
  /\ redemptions = << >>
  /\ notifications = << >>
  /\ clock = 4
  /\ InitRequests
  /\ NoIdentityState

NextOnboarding ==
  \E p \in Procs :
    \/ \E r \in PageRestaurantIds : OB_Mount(p, r)
    \/ \E step \in {"welcome", "signup", "login"} : OB_Navigate(p, step)
    \/ \E form \in FormInputs : OB_Input(p, form)
    \/ \E code \in CodeInputs : OB_CodeInput(p, code)
    \/ OB_Signup(p)
    \/ OB_SignupChecked(p)
    \/ OB_SignupSent(p)
    \/ OB_ExistingLogin(p)
    \/ \E input \in LoginInputs : OB_Login(p, input)
    \/ OB_Verify(p)
    \/ OB_Verified(p)
    \/ CC_Check(p)
    \/ CC_InsertCustomer(p)
    \/ CC_InsertTransaction(p)

SpecOnboarding == InitOnboarding /\ [][NextOnboarding]_vars

(***************************************************************************)
(* Vocabulary of the onboarding claim.  PageOf(p) is the page of browser   *)
(* p, also after it has handed over to createCustomer.                     *)
(***************************************************************************)
HasPage(p) == IsOnboarding(p) \/ (IsCreate(p) /\ "flow" \in DOMAIN local[p])

PageOf(p) == IF IsOnboarding(p) THEN local[p] ELSE local[p].flow

\* The page was put on the verify step by a handleSignup call that was told
\* of no customer and whose code was sent to an accepted number, the one the
\* verify step shows.
EnteredAfterSend(page) ==
  /\ page.entry # Null
  /\ Val(page.entry).sent
  /\ ~Val(page.entry).found
  /\ isValidPhoneNumber(Val(page.entry).formData.phone)
  /\ page.verification.phoneNumber = Val(page.entry).formData.phone

\* C30: in the onboarding flow a new customer is created only after phone
\* verification: createCustomer is called by a page only after verifyCode
\* accepted a code for the number of its verify step, a page is on the
\* 'verify' step only after sendVerificationCode succeeded for a number
\* isValidPhoneNumber accepts and checkCustomerExists returned no customer,
\* and so a customer checkCustomerExists found is never on the 'verify' step.
C30_CreatedOnlyAfterVerification ==
  \A p \in Procs :
    HasPage(p) =>
      /\ IsCreate(p) =>
           /\ PageOf(p).verification.phoneNumber \in PageOf(p).verified
           /\ EnteredAfterSend(PageOf(p))
      /\ PageOf(p).currentStep = "verify" => EnteredAfterSend(PageOf(p))

\* A page went through signup and verification and its customer was created.
C30_Witness ==
  \E p \in Procs :
    /\ Finished(p)
    /\ IsCreate(p)
    /\ "flow" \in DOMAIN local[p]
    /\ local[p].flow.currentStep = "verify"
    /\ result[p].ok
    /\ \E i \in DOMAIN customers :
         /\ customers[i].email = "e3"
         /\ customers[i].phone = Some(UaeNumber)

====
